---- MODULE Spec2Model ----
(***************************************************************************)
(* Model of map.py: the key normalizer, the village merge, ac_aggregate    *)
(* and the AC dissolve / tooltip code of the Streamlit script.             *)
(*                                                                         *)
(* Values.  A cell of a DataFrame is a record [t, v, s]:                   *)
(*   t = "nan"  a missing value (None / NaN; pd.isna is true),             *)
(*   t = "num"  the number v,                                              *)
(*   t = "str"  the Python str s, a sequence of characters,                *)
(*   t = "inf"  the float +inf (v = 1) or -inf (v = -1).                   *)
(* A character is a one-character string; the non-breaking space is NBSP.  *)
(* Floats that the code rounds to 2 decimals (shares, weighted averages)   *)
(* are kept as a number of hundredths, so 55.00 is Num(5500).              *)
(***************************************************************************)
EXTENDS Integers, Sequences, FiniteSets, TLC

VARIABLES
    pc,              \* position of the script / of the function under study
    op,              \* the operation that produced the current state
    raw, norm,       \* a key before and after _normalize_key
    shp, sheet,      \* the shapefile and the published CSV, as stored
    gdf, df,         \* map.py globals gdf, df
    CASTE_COLS,      \* map.py global CASTE_COLS
    merged,          \* map.py global merged
    level,           \* the "Map Level" radio
    group_key,       \* DUMMY_AC_FIELD or AC_FIELD
    tooltip_fields,  \* the fields handed to GeoJsonTooltip
    ac_stats,        \* ac_aggregate's result
    ac_gdf,          \* the dissolved AC collection
    error            \* the exception that ended the run, "" if none

normVars == <<raw, norm>>
pipeVars == <<shp, sheet, gdf, df, CASTE_COLS, merged, level, group_key,
              tooltip_fields, ac_stats, ac_gdf, error>>
vars == <<pc, op, raw, norm, shp, sheet, gdf, df, CASTE_COLS, merged, level,
          group_key, tooltip_fields, ac_stats, ac_gdf, error>>

----------------------------------------------------------------------------
(* Cells *)

NaN == [t |-> "nan", v |-> 0, s |-> <<>>]
None == NaN
Inf == [t |-> "inf", v |-> 1, s |-> <<>>]
NegInf == [t |-> "inf", v |-> -1, s |-> <<>>]
Num(n) == [t |-> "num", v |-> n, s |-> <<>>]
Str(s) == [t |-> "str", v |-> 0, s |-> s]
isna(x) == x.t = "nan"

----------------------------------------------------------------------------
(* Characters and Python str operations used by _normalize_key *)

NBSP == "\\u00A0"
Whitespace == {" ", "\t", NBSP}
Digits == <<"0", "1", "2", "3", "4", "5", "6", "7", "8", "9">>

RECURSIVE decimal(_)
decimal(n) ==
    IF n < 10 THEN <<Digits[n + 1]>>
    ELSE decimal(n \div 10) \o <<Digits[(n % 10) + 1]>>

\* str(s): a str is itself, a number is its decimal numeral
str(x) == IF x.t = "str" THEN x.s ELSE decimal(x.v)

RECURSIVE lstrip(_)
lstrip(s) ==
    IF s # <<>> /\ Head(s) \in Whitespace THEN lstrip(Tail(s)) ELSE s

RECURSIVE rstrip(_)
rstrip(s) ==
    IF s # <<>> /\ s[Len(s)] \in Whitespace
    THEN rstrip(SubSeq(s, 1, Len(s) - 1)) ELSE s

\* a plausible slip: only ASCII blanks are stripped, a leading or trailing
\* non-breaking space stays
strip_ascii(s) ==
    LET RECURSIVE l(_)
        l(x) == IF x # <<>> /\ Head(x) \in {" ", "\t"} THEN l(Tail(x)) ELSE x
        RECURSIVE r(_)
        r(x) == IF x # <<>> /\ x[Len(x)] \in {" ", "\t"}
                THEN r(SubSeq(x, 1, Len(x) - 1)) ELSE x
    IN  r(l(s))

\* str.strip(): whitespace (str.isspace, NBSP included) off both ends
strip(s) == rstrip(lstrip(s))

\* str.replace(old, new) for one-character old and new
replace(s, old, new) ==
    [i \in 1..Len(s) |-> IF s[i] = old THEN new ELSE s[i]]

\* re.sub(r"\s+", " ", s): every maximal run of whitespace becomes one blank
RECURSIVE re_sub_ws(_)
re_sub_ws(s) ==
    IF s = <<>> THEN <<>>
    ELSE IF Head(s) \in Whitespace
         THEN <<" ">> \o re_sub_ws(lstrip(Tail(s)))
         ELSE <<Head(s)>> \o re_sub_ws(Tail(s))

upper_char(c) ==
    CASE c = "a" -> "A"
      [] c = "b" -> "B"
      [] c = "x" -> "X"
      [] OTHER -> c

\* str.upper()
upper(s) == [i \in 1..Len(s) |-> upper_char(s[i])]

\* a plausible slip: .upper() left out
normalize_key_no_upper(x) ==
    IF isna(x) THEN None
    ELSE Str(re_sub_ws(replace(strip(str(x)), NBSP, " ")))

\* lines 33-37
_normalize_key(x) ==
    IF isna(x) THEN None
    ELSE Str(upper(re_sub_ws(replace(strip(str(x)), NBSP, " "))))

----------------------------------------------------------------------------
(* The normalizer on its own: every raw key up to MaxKeyLen characters is   *)
(* normalized, then normalized again or replaced by a variant of itself.    *)

MaxKeyLen == 3
MaxKeyNum == 12
KeyChars == {"a", "A", "1", " ", "\t", NBSP}

RECURSIVE Strings(_)
Strings(n) ==
    IF n = 0 THEN {<<>>}
    ELSE LET S == Strings(n - 1)
         IN  S \cup {Append(s, c) : s \in {x \in S : Len(x) = n - 1}, c \in KeyChars}

RawKeys ==
    {None} \cup {Str(s) : s \in Strings(MaxKeyLen)} \cup {Num(n) : n \in 0..MaxKeyNum}

swap_case(c) ==
    CASE c = "a" -> "A"
      [] c = "A" -> "a"
      [] OTHER -> c

insert(s, i, c) == SubSeq(s, 1, i) \o <<c>> \o SubSeq(s, i + 1, Len(s))

NoFrame == [columns |-> {}, rows |-> <<>>]

PipeIdle ==
    /\ shp = NoFrame /\ sheet = NoFrame /\ gdf = NoFrame /\ df = NoFrame
    /\ CASTE_COLS = <<>> /\ merged = NoFrame /\ level = "" /\ group_key = ""
    /\ tooltip_fields = <<>> /\ ac_stats = NoFrame /\ ac_gdf = NoFrame
    /\ error = ""

InitNorm ==
    /\ pc = "input"
    /\ op = "none"
    /\ raw \in RawKeys
    /\ norm = None
    /\ PipeIdle

\* gdf[key].map(_normalize_key) / df[key].map(_normalize_key) on one value
Normalize ==
    /\ pc = "input"
    /\ norm' = _normalize_key(raw)
    /\ pc' = "normalized"
    /\ op' = "Normalize"
    /\ UNCHANGED <<raw, pipeVars>>

\* the second pass of the script (lines 107-108) over an already
\* normalized key
Renormalize ==
    /\ pc = "normalized"
    /\ raw' = norm
    /\ norm' = _normalize_key(raw')
    /\ op' = "Renormalize"
    /\ UNCHANGED <<pc, pipeVars>>

Variant(s, name) ==
    /\ pc = "normalized"
    /\ raw.t = "str"
    /\ s # raw.s
    /\ raw' = Str(s)
    /\ norm' = _normalize_key(raw')
    /\ op' = name
    /\ UNCHANGED <<pc, pipeVars>>

\* the same key in another letter case
ChangeCase ==
    \E i \in 1..Len(raw.s) :
        Variant([raw.s EXCEPT ![i] = swap_case(raw.s[i])], "ChangeCase")

\* the same key with one more leading or trailing whitespace character
PadWhitespace ==
    \E w \in Whitespace :
        /\ Len(raw.s) < MaxKeyLen
        /\ \/ Variant(<<w>> \o raw.s, "PadWhitespace")
           \/ Variant(Append(raw.s, w), "PadWhitespace")

\* the same key with a non-breaking space for an ordinary one, or back
SwapSpace ==
    \E i \in 1..Len(raw.s) :
        /\ raw.s[i] \in {" ", NBSP}
        /\ Variant([raw.s EXCEPT ![i] = IF raw.s[i] = " " THEN NBSP ELSE " "],
                   "SwapSpace")

\* the same key with a longer whitespace run
StretchRun ==
    \E i \in 1..Len(raw.s), w \in Whitespace :
        /\ Len(raw.s) < MaxKeyLen
        /\ raw.s[i] \in Whitespace
        /\ Variant(insert(raw.s, i, w), "StretchRun")

NextNorm ==
    \/ Normalize
    \/ Renormalize
    \/ ChangeCase
    \/ PadWhitespace
    \/ SwapSpace
    \/ StretchRun

SpecNorm == InitNorm /\ [][NextNorm]_vars

----------------------------------------------------------------------------
(* CONFIG (map.py lines 16-28) *)

SHP_REGION_FIELD == "id"
CSV_KEY == "region_code"
VILLAGE_FIELD == "village_name"
AC_FIELD == "AC_name"
DUMMY_AC_FIELD == "dummy_ac"
TOTAL_VOTES_COL == "total_votes"
PARTY_COUNT_COLS == <<"TDP_votes", "YSRCP_votes", "BJP_votes", "Others_votes">>
PARTY_SHARE_COLS == <<"TDP_vote_share", "YSRCP_vote_share", "BJP_vote_share", "Others">>
DEFAULT_CASTE_COLS == <<"SC_pct", "ST_pct", "OBC_pct", "BC_pct", "OC_pct", "Minority_pct">>

\* share_map of ac_aggregate, as <<output column, count column>> pairs
share_map ==
    << <<"TDP_share", PARTY_COUNT_COLS[1]>>, <<"YSRCP_share", PARTY_COUNT_COLS[2]>>,
       <<"BJP_share", PARTY_COUNT_COLS[3]>>, <<"Others_share", PARTY_COUNT_COLS[4]>> >>

\* c + "_weighted" for the caste columns
weighted_name(c) ==
    CASE c = "SC_pct" -> "SC_pct_weighted"
      [] c = "ST_pct" -> "ST_pct_weighted"
      [] c = "OBC_pct" -> "OBC_pct_weighted"
      [] c = "BC_pct" -> "BC_pct_weighted"
      [] c = "OC_pct" -> "OC_pct_weighted"
      [] c = "Minority_pct" -> "Minority_pct_weighted"

Range(f) == {f[i] : i \in DOMAIN f}

----------------------------------------------------------------------------
(* pandas: a DataFrame is [columns, rows]; a row maps each column to a     *)
(* cell; the index is the RangeIndex 0 .. Len(rows) - 1.                   *)

Frame(cols, rows) == [columns |-> cols, rows |-> rows]

RECURSIVE SumOver(_, _)
SumOver(S, f) ==
    IF S = {} THEN 0
    ELSE LET x == CHOOSE y \in S : TRUE IN f[x] + SumOver(S \ {x}, f)

\* the sequence s without the elements that fail keep
RECURSIVE SelectIdx(_, _)
SelectIdx(n, keep) ==
    IF n = 0 THEN <<>>
    ELSE IF n \in keep THEN Append(SelectIdx(n - 1, keep), n)
         ELSE SelectIdx(n - 1, keep)

\* a run of decimal digits as a number, -1 if s is not one
RECURSIVE parse_digits(_)
parse_digits(s) ==
    IF s = <<>> THEN -1
    ELSE LET d == {k \in 0..9 : Digits[k + 1] = s[Len(s)]}
         IN  IF d = {} THEN -1
             ELSE IF Len(s) = 1 THEN CHOOSE k \in d : TRUE
             ELSE LET hi == parse_digits(SubSeq(s, 1, Len(s) - 1))
                  IN  IF hi < 0 THEN -1 ELSE hi * 10 + (CHOOSE k \in d : TRUE)

\* pd.to_numeric(x, errors="coerce") on one cell: numbers stay, numerals are
\* parsed, any other text becomes NaN
to_numeric(x) ==
    IF x.t = "str"
    THEN (IF parse_digits(x.s) < 0 THEN NaN ELSE Num(parse_digits(x.s)))
    ELSE x

\* Series.sum() of the cells f[i], i in S: NaN is skipped, an empty or
\* all-NaN sum is 0
nansum(S, f) ==
    Num(SumOver({i \in S : f[i].t = "num"}, [i \in S |-> f[i].v]))

\* a plausible slip: "max" for "sum" in the agg dictionary
nanmax(S, f) ==
    LET V == {f[i].v : i \in {j \in S : f[j].t = "num"}}
    IN  IF V = {} THEN NaN ELSE Num(CHOOSE m \in V : \A w \in V : w <= m)

\* Series.sum(min_count=1): NaN unless at least one cell is a number
sum_min_count(S, f) ==
    IF \A i \in S : f[i].t # "num" THEN NaN ELSE nansum(S, f)

\* the product of two cells of a float column
mul(a, b) ==
    IF a.t = "num" /\ b.t = "num" THEN Num(a.v * b.v) ELSE NaN

\* n / d rounded to the nearest integer, ties to the even one (d > 0)
RoundDiv(n, d) ==
    LET q == n \div d
        r == n - q * d
    IN  IF 2 * r < d THEN q
        ELSE IF 2 * r > d THEN q + 1
        ELSE IF q % 2 = 0 THEN q ELSE q + 1

\* (a / b * factor).round(2) on float cells, in hundredths: x / 0 is +-inf,
\* 0 / 0 and anything with NaN is NaN; no ZeroDivisionError is raised
truediv_round2(a, b, factor) ==
    IF a.t # "num" \/ b.t # "num" THEN NaN
    ELSE IF b.v = 0
         THEN (IF a.v = 0 THEN NaN ELSE IF a.v > 0 THEN Inf ELSE NegInf)
         ELSE IF b.v > 0 THEN Num(RoundDiv(a.v * factor * 100, b.v))
              ELSE Num(RoundDiv(-(a.v * factor * 100), -b.v))

fillna(x, value) == IF isna(x) THEN value ELSE x

\* the order groupby sorts its keys in: numbers by value, str by code point
\* (shorter prefix first), NaN last
CodePoint(c) ==
    CASE c = "" -> 0
      [] c = " " -> 32
      [] c = "1" -> 49
      [] c = "2" -> 50
      [] c = "A" -> 65
      [] c = "B" -> 66
      [] c = "X" -> 88
      [] c = "Y" -> 89
      [] OTHER -> 120

RECURSIVE str_lt(_, _)
str_lt(a, b) ==
    IF b = <<>> THEN FALSE
    ELSE IF a = <<>> THEN TRUE
    ELSE IF Head(a) = Head(b) THEN str_lt(Tail(a), Tail(b))
    ELSE CodePoint(Head(a)) < CodePoint(Head(b))

key_lt(a, b) ==
    IF a = b \/ isna(a) THEN FALSE
    ELSE IF isna(b) THEN TRUE
    ELSE IF a.t = "num" /\ b.t = "num" THEN a.v < b.v
    ELSE IF a.t = "str" /\ b.t = "str" THEN str_lt(a.s, b.s)
    ELSE a.t = "num"

\* the sorted distinct values of a column, NaN (last) kept unless dropna
group_keys(frame, by, dropna) ==
    LET K == {frame.rows[i][by] : i \in DOMAIN frame.rows}
        G == IF dropna THEN {k \in K : ~isna(k)} ELSE K
    IN  [i \in 1..Cardinality(G) |->
            CHOOSE g \in G : Cardinality({h \in G : key_lt(h, g)}) = i - 1]

\* the row numbers of the group with key g (NaN keys form one group)
group_rows(frame, by, g) ==
    {i \in DOMAIN frame.rows : frame.rows[i][by] = g}

----------------------------------------------------------------------------
(* ac_aggregate (map.py lines 61-95) *)

\* the columns ac_aggregate coerces with pd.to_numeric (lines 64-66)
coerced_cols == {TOTAL_VOTES_COL} \cup Range(PARTY_COUNT_COLS) \cup Range(PARTY_SHARE_COLS)

coerce_numerics(df_in) ==
    Frame(df_in.columns,
          [i \in DOMAIN df_in.rows |->
              [c \in df_in.columns |->
                  IF c \in coerced_cols THEN to_numeric(df_in.rows[i][c])
                  ELSE df_in.rows[i][c]]])

column(frame, c) == [i \in DOMAIN frame.rows |-> frame.rows[i][c]]

\* a plausible slip: "max" for "sum" in the agg dictionary
group_max(work, by, g, c) == nanmax(group_rows(work, by, g), column(work, c))

\* groupby(by, dropna=False).agg({c: "sum"}) for the group g
group_sum(work, by, g, c) == nansum(group_rows(work, by, g), column(work, c))

\* a plausible slip: numerator and denominator exchanged
share_swapped(cnt, total) == fillna(truediv_round2(total, cnt, 100), Num(0))

\* line 84: (agg[cnt] / agg[TOTAL_VOTES_COL] * 100).round(2).fillna(0)
share(cnt, total) == fillna(truediv_round2(cnt, total, 100), Num(0))

\* lines 89-94 for one caste column c and one group g of the Series num / den:
\* num sums field * total_votes over the rows where the product is a number,
\* den sums total_votes over all rows of the group where it is a number
weighted_series(work, by, c, g) ==
    LET R == group_rows(work, by, g)
        prod == [i \in DOMAIN work.rows |->
                    mul(to_numeric(work.rows[i][c]),
                        to_numeric(work.rows[i][TOTAL_VOTES_COL]))]
        tot == [i \in DOMAIN work.rows |-> to_numeric(work.rows[i][TOTAL_VOTES_COL])]
        num == sum_min_count(R, prod)
        den == sum_min_count(R, tot)
    IN  truediv_round2(num, den, 1)

\* agg[name] = series (line 94): the Series is indexed by the group keys
\* (groupby's default dropna=True, so without NaN) and is aligned on agg's
\* RangeIndex: the row with index label pos gets the value whose key is the
\* number pos, and NaN if no key is
setitem_aligned(work, by, c, pos) ==
    LET labels == Range(group_keys(work, by, TRUE))
        hit == {g \in labels : g.t = "num" /\ g.v = pos}
    IN  IF hit = {} THEN NaN
        ELSE weighted_series(work, by, c, CHOOSE g \in hit : TRUE)

\* the KeyError of groupby / agg on a column that does not exist
ac_aggregate_raises(df_in, by) ==
    ~(({by, TOTAL_VOTES_COL} \cup Range(PARTY_COUNT_COLS)) \subseteq df_in.columns)

ac_aggregate(df_in, by, caste_cols) ==
    LET work == coerce_numerics(df_in)
        keys == group_keys(work, by, FALSE)
        W == {c \in Range(caste_cols) : c \in work.columns}
        summed == {TOTAL_VOTES_COL} \cup Range(PARTY_COUNT_COLS)
        cols == {"AC_key"} \cup summed
                  \cup {share_map[k][1] : k \in DOMAIN share_map}
                  \cup {weighted_name(c) : c \in W}
        cell(i, c) ==
            IF c = "AC_key" THEN keys[i]
            ELSE IF c \in summed THEN group_sum(work, by, keys[i], c)
            ELSE IF \E k \in DOMAIN share_map : share_map[k][1] = c
            THEN LET k == CHOOSE k \in DOMAIN share_map : share_map[k][1] = c
                 IN  share(group_sum(work, by, keys[i], share_map[k][2]),
                           group_sum(work, by, keys[i], TOTAL_VOTES_COL))
            ELSE LET w == CHOOSE w \in W : weighted_name(w) = c
                 IN  setitem_aligned(work, by, w, i - 1)
    IN  Frame(cols, [i \in DOMAIN keys |-> [c \in cols |-> cell(i, c)]])

----------------------------------------------------------------------------
(* DataFrame.merge, GeoDataFrame.dissolve *)

\* Series.duplicated().any(): missing keys count as equal to each other
has_duplicates(frame, c) ==
    \E i, j \in DOMAIN frame.rows : i < j /\ frame.rows[i][c] = frame.rows[j][c]

\* a plausible slip: only the side the script itself inspects is validated
merge_validates_left(left, right, left_on, right_on, mode) ==
    mode = "m:1" \/ ~has_duplicates(left, left_on)

\* validate="1:1" / "m:1": pandas raises MergeError before joining unless the
\* right keys are unique and, for 1:1, the left keys too
merge_validates(left, right, left_on, right_on, mode) ==
    /\ ~has_duplicates(right, right_on)
    /\ mode = "m:1" \/ ~has_duplicates(left, left_on)

RECURSIVE join_rows(_, _, _, _, _, _)
join_rows(left, right, left_on, right_on, how, i) ==
    IF i > Len(left.rows) THEN <<>>
    ELSE LET l == left.rows[i]
             cols == left.columns \cup right.columns
             M == {j \in DOMAIN right.rows : right.rows[j][right_on] = l[left_on]}
             one(j) == [c \in cols |-> IF c \in left.columns THEN l[c]
                                       ELSE right.rows[j][c]]
             none == [c \in cols |-> IF c \in left.columns THEN l[c] ELSE NaN]
             ms == SelectIdx(Len(right.rows), M)
             here == IF M = {} THEN (IF how = "left" THEN <<none>> ELSE <<>>)
                     ELSE [k \in DOMAIN ms |-> one(ms[k])]
         IN  here \o join_rows(left, right, left_on, right_on, how, i + 1)

\* a plausible slip: how="inner"
merge_inner(left, right, left_on, right_on, how) ==
    Frame(left.columns \cup right.columns,
          join_rows(left, right, left_on, right_on, "inner", 1))

\* left.merge(right, left_on=, right_on=, how=): each left row once per right
\* row with an equal key (missing keys match each other), in left order; with
\* how="left" a left row without a match is kept with NaN in right's columns
merge(left, right, left_on, right_on, how) ==
    Frame(left.columns \cup right.columns,
          join_rows(left, right, left_on, right_on, how, 1))

\* frame[[by, "geometry"]].dissolve(by=by, as_index=False): one row per
\* non-missing key (dissolve's default dropna=True), its geometry the union
\* of the group's polygons
dissolve(frame, by) ==
    LET keys == group_keys(frame, by, TRUE)
    IN  Frame({by, "geometry"},
              [i \in DOMAIN keys |->
                  [c \in {by, "geometry"} |->
                      IF c = by THEN keys[i]
                      ELSE UNION {frame.rows[r]["geometry"] :
                                    r \in group_rows(frame, by, keys[i])}]])

\* frame.rename(columns={old: new})
rename(frame, old, new) ==
    LET cols == (frame.columns \ {old}) \cup {new}
    IN  Frame(cols, [i \in DOMAIN frame.rows |->
                        [c \in cols |-> IF c = new THEN frame.rows[i][old]
                                        ELSE frame.rows[i][c]]])

\* frame[c] = frame[c].map(_normalize_key)
map_normalize_key(frame, c) ==
    Frame(frame.columns,
          [i \in DOMAIN frame.rows |->
              [frame.rows[i] EXCEPT ![c] = _normalize_key(@)]])

\* frame[c] = values, a Series on the frame's own index
assign(frame, c, values) ==
    Frame(frame.columns \cup {c},
          [i \in DOMAIN frame.rows |->
              [k \in frame.columns \cup {c} |->
                  IF k = c THEN values[i] ELSE frame.rows[i][k]]])

----------------------------------------------------------------------------
(* The script, top to bottom (map.py lines 100-190), over every shapefile   *)
(* of 1..MaxGeoRows polygons and every sheet of 0..MaxSheetRows rows.       *)

MaxGeoRows == 2
MaxSheetRows == 2

RECURSIVE SeqsUpTo(_, _)
SeqsUpTo(S, n) ==
    IF n = 0 THEN {<<>>}
    ELSE LET P == SeqsUpTo(S, n - 1)
         IN  P \cup {Append(q, x) : q \in {y \in P : Len(y) = n - 1}, x \in S}

GeoKeys == {Str(<<"A", "1">>), Str(<<"b", "2">>), None}
SheetKeys == {Str(<<"A", "1">>), Str(<<"a", "1", " ">>), Str(<<"B", "2">>), None}

\* what a sheet row says besides its key
Village(ac, dummy, total, tdp, ysrcp, bjp, others, sc) ==
    [c \in {VILLAGE_FIELD, AC_FIELD, DUMMY_AC_FIELD, TOTAL_VOTES_COL, "SC_pct"}
           \cup Range(PARTY_COUNT_COLS) \cup Range(PARTY_SHARE_COLS) |->
        CASE c = VILLAGE_FIELD -> Str(<<"V">>)
          [] c = AC_FIELD -> ac
          [] c = DUMMY_AC_FIELD -> dummy
          [] c = TOTAL_VOTES_COL -> total
          [] c = PARTY_COUNT_COLS[1] -> tdp
          [] c = PARTY_COUNT_COLS[2] -> ysrcp
          [] c = PARTY_COUNT_COLS[3] -> bjp
          [] c = PARTY_COUNT_COLS[4] -> others
          [] c = "SC_pct" -> sc
          [] OTHER -> NaN]

Villages ==
    { Village(Str(<<"X">>), Str(<<"X">>), Num(50), Num(20), Num(30), Num(0), Num(0), Num(20)),
      Village(Str(<<"X">>), Str(<<"Y">>), Num(150), Num(90), Num(40), Num(10), Num(10), Num(60)) }

AllSheetColumns ==
    {CSV_KEY, VILLAGE_FIELD, AC_FIELD, DUMMY_AC_FIELD, TOTAL_VOTES_COL, "SC_pct"}
        \cup Range(PARTY_COUNT_COLS) \cup Range(PARTY_SHARE_COLS)

SheetColumnSets ==
    { AllSheetColumns,
      AllSheetColumns \ {DUMMY_AC_FIELD},
      AllSheetColumns \ ({VILLAGE_FIELD, AC_FIELD, DUMMY_AC_FIELD, "SC_pct"}
                            \cup Range(PARTY_SHARE_COLS)),
      {CSV_KEY, VILLAGE_FIELD, AC_FIELD} }

SheetRow(k, v, cols) == [c \in cols |-> IF c = CSV_KEY THEN k ELSE v[c]]

Sheets ==
    { Frame(cols, [i \in DOMAIN q |-> SheetRow(q[i][1], q[i][2], cols)]) :
        q \in SeqsUpTo(SheetKeys \X Villages, MaxSheetRows), cols \in SheetColumnSets }

\* polygon i of the shapefile is the set {i}; a dissolved polygon is a union
ShapeFiles ==
    { Frame({SHP_REGION_FIELD, "geometry"},
            [i \in DOMAIN q |->
                [c \in {SHP_REGION_FIELD, "geometry"} |->
                    IF c = SHP_REGION_FIELD THEN q[i] ELSE {i}]]) :
        q \in SeqsUpTo(GeoKeys, MaxGeoRows) \ {<<>>} }

Init ==
    /\ pc = "start"
    /\ op = "none"
    /\ raw = None /\ norm = None
    /\ shp \in ShapeFiles
    /\ sheet \in Sheets
    /\ gdf = NoFrame /\ df = NoFrame
    /\ CASTE_COLS = <<>> /\ merged = NoFrame /\ level = "" /\ group_key = ""
    /\ tooltip_fields = <<>> /\ ac_stats = NoFrame /\ ac_gdf = NoFrame
    /\ error = ""

\* lines 40-50 and line 100; the reprojection leaves keys and polygon
\* identities alone
load_shapefile ==
    /\ pc = "start"
    /\ gdf' = map_normalize_key(shp, SHP_REGION_FIELD)
    /\ pc' = "shapefile_loaded"
    /\ op' = "load_shapefile"
    /\ UNCHANGED <<normVars, shp, sheet, df, CASTE_COLS, merged, level, group_key,
                   tooltip_fields, ac_stats, ac_gdf, error>>

\* lines 53-59 and line 101
load_sheet ==
    /\ pc = "shapefile_loaded"
    /\ LET d == map_normalize_key(sheet, CSV_KEY)
           \* df.get(AC_FIELD, "")
           get == [i \in DOMAIN d.rows |->
                      IF AC_FIELD \in d.columns THEN d.rows[i][AC_FIELD]
                      ELSE Str(<<>>)]
       IN  df' = IF DUMMY_AC_FIELD \notin d.columns
                 THEN assign(d, DUMMY_AC_FIELD, get) ELSE d
    /\ pc' = "sheet_loaded"
    /\ op' = "load_sheet"
    /\ UNCHANGED <<normVars, shp, sheet, gdf, CASTE_COLS, merged, level, group_key,
                   tooltip_fields, ac_stats, ac_gdf, error>>

\* line 111
merge_mode(g) == IF has_duplicates(g, SHP_REGION_FIELD) THEN "m:1" ELSE "1:1"

\* lines 103-112: CASTE_COLS, the second normalization, the validated merge;
\* a MergeError ends the script and Streamlit shows it
Merge ==
    /\ pc = "sheet_loaded"
    /\ CASTE_COLS' = SelectSeq(DEFAULT_CASTE_COLS, LAMBDA c : c \in df.columns)
    /\ df' = map_normalize_key(df, CSV_KEY)
    /\ gdf' = map_normalize_key(gdf, SHP_REGION_FIELD)
    /\ IF merge_validates(gdf', df', SHP_REGION_FIELD, CSV_KEY, merge_mode(gdf'))
       THEN /\ merged' = merge(gdf', df', SHP_REGION_FIELD, CSV_KEY, "left")
            /\ pc' = "merged"
            /\ error' = ""
       ELSE /\ merged' = NoFrame
            /\ pc' = "error"
            /\ error' = "MergeError"
    /\ op' = "Merge"
    /\ UNCHANGED <<normVars, shp, sheet, level, group_key, tooltip_fields,
                   ac_stats, ac_gdf>>

\* line 141
village_tooltip_fields(caste_cols) ==
    <<VILLAGE_FIELD, "subdistrict", "district", AC_FIELD, DUMMY_AC_FIELD>>
        \o PARTY_SHARE_COLS \o caste_cols

\* a plausible slip: the loop of lines 142-144 left out
ensure_columns_skipped(frame, fields) == frame

\* lines 142-144: for f in fields: if f not in frame.columns: frame[f] = None
ensure_columns(frame, fields) ==
    LET cols == frame.columns \cup Range(fields)
    IN  Frame(cols, [i \in DOMAIN frame.rows |->
                        [c \in cols |-> IF c \in frame.columns THEN frame.rows[i][c]
                                        ELSE None]])

\* lines 139-158: level == "Village"
VillageLayer ==
    /\ pc = "merged"
    /\ level' = "Village"
    /\ tooltip_fields' = village_tooltip_fields(CASTE_COLS)
    /\ merged' = ensure_columns(merged, tooltip_fields')
    /\ pc' = "rendered"
    /\ op' = "VillageLayer"
    /\ UNCHANGED <<normVars, shp, sheet, gdf, df, CASTE_COLS, group_key,
                   ac_stats, ac_gdf, error>>

\* lines 177-178
ac_tooltip_fields(by, caste_cols, frame) ==
    <<by, "TDP_share", "YSRCP_share", "BJP_share", "Others_share">>
        \o SelectSeq([i \in DOMAIN caste_cols |-> weighted_name(caste_cols[i])],
                     LAMBDA w : w \in frame.columns)

\* lines 166-174: dissolve, aggregate, rename, left join
ac_layer(frame, by, caste_cols) ==
    merge(dissolve(frame, by),
          rename(ac_aggregate(frame, by, caste_cols), "AC_key", by),
          by, by, "left")

\* lines 160-190: level == "Assembly Constituency"; a KeyError (no such
\* column) ends the script
ACLayer ==
    /\ pc = "merged"
    /\ level' = "Assembly Constituency"
    /\ \E use_dummy \in BOOLEAN :
          group_key' = IF use_dummy THEN DUMMY_AC_FIELD ELSE AC_FIELD
    /\ IF ac_aggregate_raises(merged, group_key')
       THEN /\ pc' = "error"
            /\ error' = "KeyError"
            /\ UNCHANGED <<ac_stats, ac_gdf, tooltip_fields>>
       ELSE /\ ac_stats' = rename(ac_aggregate(merged, group_key', CASTE_COLS),
                                  "AC_key", group_key')
            /\ ac_gdf' = ac_layer(merged, group_key', CASTE_COLS)
            /\ tooltip_fields' = ac_tooltip_fields(group_key', CASTE_COLS, ac_gdf')
            /\ pc' = "rendered"
            /\ error' = ""
    /\ op' = "ACLayer"
    /\ UNCHANGED <<normVars, shp, sheet, gdf, df, CASTE_COLS, merged>>

Next ==
    \/ load_shapefile
    \/ load_sheet
    \/ Merge
    \/ VillageLayer
    \/ ACLayer

Spec == Init /\ [][Next]_vars

----------------------------------------------------------------------------
(* ac_aggregate on its own: every frame of 0..MaxAggRows rows over the      *)
(* columns it reads, grouped by dummy_ac, with one caste column.            *)

MaxAggRows == 2

AggKeys == {Str(<<"X">>), Num(0), NaN}

\* <<total_votes, TDP_votes, YSRCP_votes, BJP_votes, Others_votes, SC_pct>>
AggVotes ==
    { <<Num(100), Num(20), Num(30), Num(10), Num(40), Num(20)>>,
      <<Str(<<"3", "0", "0">>), Num(90), Num(150), Num(0), Num(60), Num(60)>>,
      <<Num(100), Num(20), Num(30), Num(10), Num(40), NaN>>,
      <<Num(0), Num(20), Num(0), Num(0), Num(0), Num(20)>>,
      <<Num(0), Num(0), Num(0), Num(0), Num(0), NaN>>,
      <<Str(<<"a", "b", "c">>), Num(20), NaN, Num(0), Str(<<"a", "b", "c">>), Num(60)>>,
      <<Num(100), Num(150), Num(0), Num(0), Num(0), Num(60)>> }

AggColumns ==
    {DUMMY_AC_FIELD, TOTAL_VOTES_COL, "SC_pct"} \cup Range(PARTY_COUNT_COLS)

AggRow(k, v) ==
    [c \in AggColumns |->
        CASE c = DUMMY_AC_FIELD -> k
          [] c = TOTAL_VOTES_COL -> v[1]
          [] c = PARTY_COUNT_COLS[1] -> v[2]
          [] c = PARTY_COUNT_COLS[2] -> v[3]
          [] c = PARTY_COUNT_COLS[3] -> v[4]
          [] c = PARTY_COUNT_COLS[4] -> v[5]
          [] c = "SC_pct" -> v[6]]

AggFrames ==
    { Frame(AggColumns, [i \in DOMAIN q |-> AggRow(q[i][1], q[i][2])]) :
        q \in SeqsUpTo(AggKeys \X AggVotes, MaxAggRows) }

InitAgg ==
    /\ pc = "agg_input"
    /\ op = "none"
    /\ raw = None /\ norm = None
    /\ shp = NoFrame /\ sheet = NoFrame /\ gdf = NoFrame /\ df = NoFrame
    /\ merged \in AggFrames
    /\ CASTE_COLS = <<"SC_pct">>
    /\ group_key = DUMMY_AC_FIELD
    /\ level = "" /\ tooltip_fields = <<>>
    /\ ac_stats = NoFrame /\ ac_gdf = NoFrame
    /\ error = ""

\* ac_stats = ac_aggregate(merged, group_key, CASTE_COLS)
Aggregate ==
    /\ pc = "agg_input"
    /\ ac_stats' = ac_aggregate(merged, group_key, CASTE_COLS)
    /\ pc' = "agg_done"
    /\ op' = "Aggregate"
    /\ UNCHANGED <<normVars, shp, sheet, gdf, df, CASTE_COLS, merged, level,
                   group_key, tooltip_fields, ac_gdf, error>>

NextAgg == Aggregate

SpecAgg == InitAgg /\ [][NextAgg]_vars

----------------------------------------------------------------------------
(* Properties of ac_aggregate, checked under SpecAgg *)

share_cols == {share_map[k][1] : k \in DOMAIN share_map}

\* the rows of merged, coerced as ac_aggregate coerces them
coerced == coerce_numerics(merged)

IsCount(x) == x.t = "num" /\ x.v >= 0

\* C1: a group whose summed total_votes is zero or missing has every
\* recomputed share equal to 0, whatever its summed party counts are
C1_ZeroTotalSharesAreZero ==
    pc = "agg_done" =>
        \A i \in DOMAIN ac_stats.rows :
            LET r == ac_stats.rows[i]
            IN  (isna(r[TOTAL_VOTES_COL]) \/ r[TOTAL_VOTES_COL] = Num(0)) =>
                    \A c \in share_cols : r[c] = Num(0)

\* the weighted average over the rows of group g whose field c is a number
expected_weighted(frame, by, c, g) ==
    LET R == {i \in group_rows(frame, by, g) : to_numeric(frame.rows[i][c]).t = "num"}
        prod == [i \in DOMAIN frame.rows |->
                    mul(to_numeric(frame.rows[i][c]),
                        to_numeric(frame.rows[i][TOTAL_VOTES_COL]))]
        tot == [i \in DOMAIN frame.rows |-> to_numeric(frame.rows[i][TOTAL_VOTES_COL])]
    IN  truediv_round2(sum_min_count(R, prod), sum_min_count(R, tot), 1)

\* C2: on every group's record, <field>_weighted is sum(field * total_votes)
\* / sum(total_votes) over the group's rows where the field is non-missing,
\* rounded to 2 decimals (50.00 for totals {100, 300} and values {20, 60})
C2_WeightedAverage ==
    pc = "agg_done" =>
        \A i \in DOMAIN ac_stats.rows :
            \A c \in Range(CASTE_COLS) :
                ac_stats.rows[i][weighted_name(c)]
                    = expected_weighted(merged, group_key, c, ac_stats.rows[i]["AC_key"])

\* the rows of group g all have a non-negative total_votes and non-negative
\* party counts
NonNegativeGroup(g) ==
    \A i \in group_rows(coerced, group_key, g) :
        \A c \in {TOTAL_VOTES_COL} \cup Range(PARTY_COUNT_COLS) :
            IsCount(coerced.rows[i][c])

InRange0To100(x) == x.t = "num" /\ 0 <= x.v /\ x.v <= 10000

\* C3 as stated: non-negative rows and a positive summed total put every
\* recomputed share in [0, 100]
C3_SharesWithin0To100 ==
    pc = "agg_done" =>
        \A i \in DOMAIN ac_stats.rows :
            LET r == ac_stats.rows[i]
            IN  (NonNegativeGroup(r["AC_key"]) /\ r[TOTAL_VOTES_COL].v > 0) =>
                    \A c \in share_cols : InRange0To100(r[c])

\* C3 amended: non-negative rows and a positive summed total put the share
\* of every party whose summed count does not exceed the summed total in
\* [0, 100]
C3_SharesWithin0To100WhenCountWithinTotal ==
    pc = "agg_done" =>
        \A i \in DOMAIN ac_stats.rows :
            LET r == ac_stats.rows[i]
            IN  (NonNegativeGroup(r["AC_key"]) /\ r[TOTAL_VOTES_COL].v > 0) =>
                    \A k \in DOMAIN share_map :
                        r[share_map[k][2]].v <= r[TOTAL_VOTES_COL].v
                            => InRange0To100(r[share_map[k][1]])

C3_Witness ==
    /\ pc = "agg_done"
    /\ \E i \in DOMAIN ac_stats.rows :
          LET r == ac_stats.rows[i]
          IN  /\ NonNegativeGroup(r["AC_key"])
              /\ Cardinality(group_rows(merged, group_key, r["AC_key"])) = 2
              /\ r[TOTAL_VOTES_COL] = Num(400)
              /\ r["TDP_share"] = Num(2750)
              /\ r["YSRCP_share"] = Num(4500)

\* the rows S of a frame, as a frame
subframe(frame, S) ==
    LET idx == SelectIdx(Len(frame.rows), S)
    IN  Frame(frame.columns, [k \in DOMAIN idx |-> frame.rows[idx[k]]])

\* the record ac_aggregate returns for key g over the rows S of merged
sub_aggregate(S, g) ==
    LET a == ac_aggregate(subframe(merged, S), group_key, CASTE_COLS)
    IN  a.rows[CHOOSE i \in DOMAIN a.rows : a.rows[i]["AC_key"] = g]

\* C5: for every group and every split of its rows into two non-empty
\* parts, the summed total_votes and party counts of the whole are the sums
\* of those of the parts; a non-numeric or missing value adds nothing, so a
\* sum is the sum of the numeric values and an all-missing sum is 0
C5_SumsAdditive ==
    pc = "agg_done" =>
        \A i \in DOMAIN ac_stats.rows :
            LET r == ac_stats.rows[i]
                g == r["AC_key"]
                R == group_rows(merged, group_key, g)
            IN  \A c \in {TOTAL_VOTES_COL} \cup Range(PARTY_COUNT_COLS) :
                    /\ r[c].t = "num"
                    /\ r[c].v = SumOver({j \in R : coerced.rows[j][c].t = "num"},
                                        [j \in R |-> coerced.rows[j][c].v])
                    /\ (\A j \in R : coerced.rows[j][c].t # "num") => r[c] = Num(0)
                    /\ \A S \in (SUBSET R) \ {{}, R} :
                          /\ sub_aggregate(S, g)[c].t = "num"
                          /\ sub_aggregate(R \ S, g)[c].t = "num"
                          /\ r[c].v = sub_aggregate(S, g)[c].v
                                        + sub_aggregate(R \ S, g)[c].v

C5_Witness ==
    /\ pc = "agg_done"
    /\ \E i \in DOMAIN ac_stats.rows :
          LET r == ac_stats.rows[i]
              R == group_rows(merged, group_key, r["AC_key"])
          IN  /\ Cardinality(R) = 2
              /\ \E j \in R : merged.rows[j][TOTAL_VOTES_COL].t = "str"
                                /\ coerced.rows[j][TOTAL_VOTES_COL] = NaN
              /\ \E j \in R : merged.rows[j][TOTAL_VOTES_COL].t = "str"
                                /\ coerced.rows[j][TOTAL_VOTES_COL] = Num(300)
              /\ r[TOTAL_VOTES_COL] = Num(300)
              /\ r[PARTY_COUNT_COLS[1]] = Num(110)

----------------------------------------------------------------------------
(* Properties of the normalizer, checked under SpecNorm *)

----------------------------------------------------------------------------
(* Properties of the script, checked under Spec *)

AfterMerge == pc \in {"merged", "rendered", "error"}
ACRendered == pc = "rendered" /\ level = "Assembly Constituency"

\* C4: ac_gdf holds exactly one record per distinct grouping-key value of
\* merged, the missing key included, and every village polygon lies in
\* exactly one AC polygon
C4_OneRecordPerKey ==
    ACRendered =>
        /\ \A k \in {merged.rows[i][group_key] : i \in DOMAIN merged.rows} :
              Cardinality({j \in DOMAIN ac_gdf.rows : ac_gdf.rows[j][group_key] = k}) = 1
        /\ \A i \in DOMAIN merged.rows :
              Cardinality({j \in DOMAIN ac_gdf.rows :
                  merged.rows[i]["geometry"] \subseteq ac_gdf.rows[j]["geometry"]}) = 1

\* C6: a completed merge has one row per geometry row, in order and with
\* the geometry row's own values, and NaN in every sheet column of a row
\* whose key no sheet row has
C6_MergeKeepsEveryGeometryRow ==
    (AfterMerge /\ error # "MergeError") =>
        /\ Len(merged.rows) = Len(gdf.rows)
        /\ \A i \in DOMAIN gdf.rows :
              /\ \A c \in gdf.columns : merged.rows[i][c] = gdf.rows[i][c]
              /\ (\A j \in DOMAIN df.rows :
                      df.rows[j][CSV_KEY] # gdf.rows[i][SHP_REGION_FIELD])
                   => \A c \in df.columns : isna(merged.rows[i][c])

C6_Witness ==
    /\ pc = "merged"
    /\ Len(gdf.rows) = 2
    /\ has_duplicates(gdf, SHP_REGION_FIELD)
    /\ isna(gdf.rows[1][SHP_REGION_FIELD])
    /\ Len(df.rows) = 2
    /\ \A j \in DOMAIN df.rows : ~isna(df.rows[j][CSV_KEY])
    /\ TOTAL_VOTES_COL \in merged.columns
    /\ isna(merged.rows[2][TOTAL_VOTES_COL])

\* C7: keys duplicated on both sides end the merge with a MergeError and no
\* merged row; no key appears on more merged rows than geometry rows
C7_DuplicatesOnBothSidesRejected ==
    AfterMerge =>
        /\ (has_duplicates(gdf, SHP_REGION_FIELD) /\ has_duplicates(df, CSV_KEY))
               => (pc = "error" /\ error = "MergeError" /\ merged = NoFrame)
        /\ \A i \in DOMAIN merged.rows :
              Cardinality(group_rows(merged, SHP_REGION_FIELD,
                                     merged.rows[i][SHP_REGION_FIELD]))
                <= Cardinality(group_rows(gdf, SHP_REGION_FIELD,
                                          merged.rows[i][SHP_REGION_FIELD]))

C7_Witness ==
    /\ pc = "error"
    /\ error = "MergeError"
    /\ op = "Merge"
    /\ has_duplicates(gdf, SHP_REGION_FIELD)
    /\ ~isna(gdf.rows[1][SHP_REGION_FIELD])
    /\ has_duplicates(df, CSV_KEY)
    /\ ~has_duplicates(sheet, CSV_KEY)
    /\ df.rows[1][CSV_KEY] = gdf.rows[1][SHP_REGION_FIELD]

\* the sheet of the end-to-end scenario: two rows with keys k1 and k2, both
\* in AC "X", total_votes 50 and 150, TDP_votes 20 and 90
Scenario(k1, k2) ==
    /\ sheet.columns = AllSheetColumns
    /\ Len(sheet.rows) = 2
    /\ \E a, b \in DOMAIN sheet.rows :
          /\ a # b
          /\ sheet.rows[a][CSV_KEY] = Str(k1)
          /\ sheet.rows[b][CSV_KEY] = Str(k2)
          /\ sheet.rows[a][AC_FIELD] = Str(<<"X">>)
          /\ sheet.rows[b][AC_FIELD] = Str(<<"X">>)
          /\ sheet.rows[a][TOTAL_VOTES_COL] = Num(50)
          /\ sheet.rows[b][TOTAL_VOTES_COL] = Num(150)
          /\ sheet.rows[a][PARTY_COUNT_COLS[1]] = Num(20)
          /\ sheet.rows[b][PARTY_COUNT_COLS[1]] = Num(90)

\* exactly one record of ac_stats is for AC "X", and it has total_votes 200
\* and TDP_share 55.00
OneRecordForX ==
    LET X == {j \in DOMAIN ac_stats.rows : ac_stats.rows[j][group_key] = Str(<<"X">>)}
    IN  /\ Cardinality(X) = 1
        /\ \A j \in X : /\ ac_stats.rows[j][TOTAL_VOTES_COL] = Num(200)
                        /\ ac_stats.rows[j]["TDP_share"] = Num(5500)

\* the run has ended: with an error, or with the AC layer by AC_name
EndedByACName == pc = "error" \/ (ACRendered /\ group_key = AC_FIELD)

\* C9 as stated: with the keys "A1" and "a1 " the finished pipeline has
\* exactly one AC record for "X", with total_votes 200 and TDP_share 55.00
C9_EndToEnd ==
    (Scenario(<<"A", "1">>, <<"a", "1", " ">>) /\ EndedByACName) => OneRecordForX

\* each of the two keys is the key of exactly one village polygon
OnePolygonEach ==
    /\ Len(shp.rows) = 2
    /\ shp.rows[1][SHP_REGION_FIELD] = Str(<<"A", "1">>)
    /\ shp.rows[2][SHP_REGION_FIELD] = Str(<<"b", "2">>)

\* C9 amended: the keys "A1" and "a1 " normalize to one key, the merge is
\* rejected with a MergeError and there is no AC record; with keys that
\* normalize to different values ("A1", "B2"), each on one polygon, there
\* is exactly one AC record for "X", with total_votes 200 and TDP_share 55.00
C9_EndToEndDistinctKeys ==
    /\ (Scenario(<<"A", "1">>, <<"a", "1", " ">>) /\ AfterMerge)
          => (pc = "error" /\ error = "MergeError" /\ ac_stats = NoFrame)
    /\ (Scenario(<<"A", "1">>, <<"B", "2">>) /\ OnePolygonEach /\ AfterMerge)
          => /\ error # "MergeError"
             /\ (ACRendered /\ group_key = AC_FIELD) => OneRecordForX

C9_Witness ==
    /\ Scenario(<<"A", "1">>, <<"B", "2">>)
    /\ OnePolygonEach
    /\ ACRendered
    /\ group_key = AC_FIELD
    /\ OneRecordForX
    /\ Len(ac_gdf.rows) = 1
    /\ ac_gdf.rows[1]["geometry"] = {1, 2}

\* C10: every tooltip field is a column of the rendered collection: of
\* merged in Village mode, of ac_gdf in Assembly Constituency mode, where
\* the fields are the grouping key, the four shares and the weighted
\* columns of CASTE_COLS
C10_TooltipFieldsExist ==
    pc = "rendered" =>
        /\ level = "Village" =>
              /\ Range(tooltip_fields) \subseteq merged.columns
              /\ Range(tooltip_fields) = Range(village_tooltip_fields(CASTE_COLS))
        /\ level = "Assembly Constituency" =>
              /\ Range(tooltip_fields) \subseteq ac_gdf.columns
              /\ Range(tooltip_fields) =
                    {group_key} \cup share_cols
                        \cup {weighted_name(CASTE_COLS[i]) : i \in DOMAIN CASTE_COLS}

C10_Witness ==
    /\ pc = "rendered"
    /\ level = "Village"
    /\ VILLAGE_FIELD \notin df.columns
    /\ VILLAGE_FIELD \in merged.columns
    /\ Len(merged.rows) = 2
    /\ \A i \in DOMAIN merged.rows : merged.rows[i][VILLAGE_FIELD] = None

====
